---- MODULE Spec2Model ----
(***************************************************************************)
(* A model of the pull-request extraction layer:                           *)
(*   GitHubService  (constructor, getPullRequest, getPullRequestFiles,     *)
(*                   getPullRequestDiff)                                   *)
(*   PRExtractor    (create, shouldExtract, performExtraction,             *)
(*                   writeDiffFile)                                        *)
(* JavaScript strings are sequences of one-character strings; a diff text  *)
(* is a sequence of UTF-16 code units, each tagged with its UTF-8 width.   *)
(***************************************************************************)
EXTENDS Integers, Sequences, FiniteSets, TLC

VARIABLES
    created,    \* the bundle PRExtractor.create was last called with, and the client's outcome
    extractor,  \* the PRExtractor instance: its optional githubService
    log,        \* the entries handed to the logger by create and the constructor
    should,     \* the last shouldExtract call: its argument and its result
    proc,       \* the in-flight calls: one record per caller
    fs,         \* the file system: the content at each diff path
    dirs        \* the directories that exist

vars == <<created, extractor, log, should, proc, fs, dirs>>

(***************************************************************************)
(* Bounds of the model.                                                    *)
(***************************************************************************)
\* TEMPLATE_CONFIG.MAX_DIFF_SIZE is set in config/constants, outside the
\* files at hand; the model runs with a small value.
MAX_DIFF_SIZE == 3
\* The longest diff text the remote serves, as code units beyond MAX_DIFF_SIZE.
DiffSlack == 2
\* The most pages the remote is asked for before the model stops following it.
MaxPages == 3
\* The largest pull-request number handed to an extraction.
MaxPull == 2

(***************************************************************************)
(* Strings.                                                                *)
(***************************************************************************)
Min(a, b) == IF a < b THEN a ELSE b
Max(a, b) == IF a > b THEN a ELSE b

\* String.prototype.substring(from, to) with 0-based indices, clamped.
Substring(s, from, to) ==
    LET a == Min(Max(from, 0), Len(s))
        b == Min(Max(to, 0), Len(s))
        lo == Min(a, b)
        hi == Max(a, b)
    IN  [i \in 1..(hi - lo) |-> s[lo + i]]

StartsWith(s, pre) ==
    Len(pre) <= Len(s) /\ \A i \in 1..Len(pre) : s[i] = pre[i]

EndsWith(s, suf) ==
    Len(suf) <= Len(s) /\ \A i \in 1..Len(suf) : s[Len(s) - Len(suf) + i] = suf[i]

\* An optional string: undefined, or a string (possibly empty).
Undefined == [def |-> FALSE, v |-> <<>>]
Some(s) == [def |-> TRUE, v |-> s]
\* JavaScript truthiness of an optional string.
Truthy(o) == o.def /\ o.v # <<>>

\* An optional number.
NoNumber == [def |-> FALSE, n |-> 0]
Num(k) == [def |-> TRUE, n |-> k]

S_api_v3 == <<"/", "a", "p", "i", "/", "v", "3">>
S_api_v3_rel == <<"a", "p", "i", "/", "v", "3">>
S_slash == <<"/">>
S_dots == <<".", ".", ".">>
S_ghp == <<"g", "h", "p", "_">>
S_ghs == <<"g", "h", "s", "_">>
S_gho == <<"g", "h", "o", "_">>
S_ghu == <<"g", "h", "u", "_">>
S_github_pat == <<"g", "i", "t", "h", "u", "b", "_", "p", "a", "t", "_">>

(***************************************************************************)
(* The input bundles (ActionInputs).                                       *)
(***************************************************************************)
Tokens ==
    { S_ghp \o <<"A", "1">>, S_ghp \o <<"B", "2">>,
      S_ghs \o <<"A", "1">>, S_gho \o <<"A", "1">>, S_ghu \o <<"A", "1">>,
      S_github_pat \o <<"A">>, S_github_pat \o <<"B">>,
      <<"a", "b", "c">>,
      <<"t", "o", "k", "9", "A">>, <<"t", "o", "k", "9", "B">> }

RepoNames ==
    { <<"o", "/", "r">>, <<"o", "r">>, <<"o", "/">>, <<"/", "r">>, <<"o", "/", "r", "/", "x">> }

ApiUrls ==
    { <<"h">>, <<"h", "/">>, <<"h">> \o S_api_v3 }

AllInputs ==
    [ pullNumber : {NoNumber} \cup {Num(k) : k \in -1..MaxPull},
      repoName : {Undefined, Some(<<>>)} \cup {Some(r) : r \in RepoNames},
      githubToken : {Undefined, Some(<<>>)} \cup {Some(t) : t \in Tokens},
      githubApiUrl : {Undefined, Some(<<>>)} \cup {Some(u) : u \in ApiUrls} ]

\* The bundles the extraction runs are created from.
SmallInputs ==
    [ pullNumber : {Num(1)},
      repoName : {Undefined, Some(<<"o", "/", "r">>), Some(<<"o", "r">>)},
      githubToken : {Undefined, Some(S_ghp \o <<"A", "1">>)},
      githubApiUrl : {Undefined, Some(<<"h">>)} ]

NoInputs ==
    [pullNumber |-> NoNumber, repoName |-> Undefined,
     githubToken |-> Undefined, githubApiUrl |-> Undefined]

(***************************************************************************)
(* PRExtractor.shouldExtract                                               *)
(***************************************************************************)
ShouldExtract_GE0(inputs) ==
    /\ inputs.pullNumber.def /\ inputs.pullNumber.n >= 0
    /\ Truthy(inputs.repoName)
    /\ Truthy(inputs.githubToken)

\* !!(inputs.pullNumber && inputs.pullNumber > 0 && inputs.repoName && inputs.githubToken)
ShouldExtract(inputs) ==
    /\ inputs.pullNumber.def /\ inputs.pullNumber.n # 0
    /\ inputs.pullNumber.n > 0
    /\ Truthy(inputs.repoName)
    /\ Truthy(inputs.githubToken)

(***************************************************************************)
(* ValidationUtils.parseRepoName: "owner/repo" into its two parts; any     *)
(* other shape is rejected.                                                *)
(***************************************************************************)
SlashPositions(s) == {i \in 1..Len(s) : s[i] = "/"}

ParseRepoName(s) ==
    IF Cardinality(SlashPositions(s)) = 1
    THEN LET k == CHOOSE i \in SlashPositions(s) : TRUE
             owner == Substring(s, 0, k - 1)
             repo == Substring(s, k, Len(s))
         IN  IF owner # <<>> /\ repo # <<>>
             THEN [ok |-> TRUE, owner |-> owner, repo |-> repo]
             ELSE [ok |-> FALSE, owner |-> <<>>, repo |-> <<>>]
    ELSE [ok |-> FALSE, owner |-> <<>>, repo |-> <<>>]

(***************************************************************************)
(* GitHubService.constructor                                               *)
(***************************************************************************)
\* The API base location handed to the client.
AdjustBaseUrl(baseUrl) ==
    IF EndsWith(baseUrl, S_api_v3) THEN baseUrl
    ELSE IF EndsWith(baseUrl, S_slash) THEN baseUrl \o S_api_v3_rel
    ELSE baseUrl \o S_api_v3

TokenType(token) ==
    IF StartsWith(token, S_ghp) THEN "personal_access_token"
    ELSE IF StartsWith(token, S_ghs) THEN "server_to_server_token"
    ELSE IF StartsWith(token, S_gho) THEN "oauth_token"
    ELSE IF StartsWith(token, S_ghu) THEN "user_access_token"
    ELSE IF StartsWith(token, S_github_pat) THEN "fine_grained_token"
    ELSE "unknown"

TokenPrefix(token) == Substring(token, 0, 4)

\* octokitConfig: { auth, baseUrl? }
OctokitConfig(config) ==
    [auth |-> config.token,
     baseUrl |-> IF Truthy(config.baseUrl) THEN Some(AdjustBaseUrl(config.baseUrl.v))
                 ELSE Undefined]

NoService == [present |-> FALSE, owner |-> <<>>, repo |-> <<>>, client |-> [auth |-> <<>>, baseUrl |-> Undefined]]

\* new GitHubService(config), the client library accepting the configuration
\* or not: the instance (or the throw) and the log entries written on the way.
GitHubServiceNew(config, octokitThrows) ==
    LET oc == OctokitConfig(config)
        urlLog ==
            IF Truthy(config.baseUrl)
            THEN (IF ~EndsWith(config.baseUrl.v, S_api_v3)
                  THEN << [level |-> "debug", msg |-> "Adjusted GitHub API URL to include /api/v3",
                           meta |-> [original |-> config.baseUrl.v, adjusted |-> oc.baseUrl.v]] >>
                  ELSE << >>)
                 \o << [level |-> "debug", msg |-> "Using custom GitHub API URL",
                        meta |-> [baseUrl |-> oc.baseUrl.v, originalUrl |-> config.baseUrl.v,
                                  wasAdjusted |-> (oc.baseUrl.v # config.baseUrl.v)]] >>
            ELSE << [level |-> "debug", msg |-> "Using default GitHub.com API", meta |-> [none |-> TRUE]] >>
        tokenLog ==
            << [level |-> "debug", msg |-> "GitHub token info",
                meta |-> [tokenPrefix |-> TokenPrefix(config.token) \o S_dots,
                          tokenType |-> TokenType(config.token),
                          tokenLength |-> Len(config.token)]],
               [level |-> "debug", msg |-> "Creating Octokit instance with config",
                meta |-> [hasAuth |-> (oc.auth # <<>>), hasBaseUrl |-> Truthy(oc.baseUrl),
                          baseUrl |-> oc.baseUrl,
                          configKeys |-> IF Truthy(config.baseUrl) THEN <<"auth", "baseUrl">> ELSE <<"auth">>]] >>
    IN  IF octokitThrows
        THEN [threw |-> TRUE, service |-> NoService,
              log |-> urlLog \o tokenLog \o
                  << [level |-> "error", msg |-> "Failed to create Octokit instance", meta |-> [error |-> "octokitError"]],
                     [level |-> "error", msg |-> "Failed to initialize GitHubService",
                      meta |-> [error |-> "Failed to initialize GitHub API client"]] >>]
        ELSE [threw |-> FALSE,
              service |-> [present |-> TRUE, owner |-> config.owner, repo |-> config.repo, client |-> oc],
              log |-> urlLog \o tokenLog \o
                  << [level |-> "debug", msg |-> "Octokit instance created successfully",
                      meta |-> [octokitVersion |-> "unknown", configUsed |-> oc,
                                instanceType |-> "object", hasRequest |-> TRUE]],
                     [level |-> "debug", msg |-> "GitHubService initialized successfully",
                      meta |-> [owner |-> config.owner, repo |-> config.repo, hasOctokit |-> TRUE]] >>]

(***************************************************************************)
(* PRExtractor.create                                                      *)
(***************************************************************************)
LazyLog ==
    << [level |-> "debug", msg |-> "PRExtractor created without GitHubService (will be created lazily)",
        meta |-> [none |-> TRUE]] >>

FailedLog(message) ==
    << [level |-> "debug", msg |-> "Failed to create pre-configured GitHubService, will create lazily",
        meta |-> [error |-> message]] >>

\* create with the try/catch around parsing and construction left out.
PRExtractorCreate_NoCatch(inputs, octokitThrows) ==
    IF Truthy(inputs.repoName) /\ Truthy(inputs.githubToken)
    THEN LET repoInfo == ParseRepoName(inputs.repoName.v)
             made == GitHubServiceNew([token |-> inputs.githubToken.v, owner |-> repoInfo.owner,
                                       repo |-> repoInfo.repo, baseUrl |-> inputs.githubApiUrl],
                                      octokitThrows)
         IN  IF ~repoInfo.ok \/ made.threw
             THEN [threw |-> TRUE, githubService |-> NoService, log |-> << >>]
             ELSE [threw |-> FALSE, githubService |-> made.service, log |-> made.log]
    ELSE [threw |-> FALSE, githubService |-> NoService, log |-> LazyLog]

\* PRExtractor.create(inputs): the extractor returned (or the throw) and the
\* log entries written.
PRExtractorCreate(inputs, octokitThrows) ==
    IF Truthy(inputs.repoName) /\ Truthy(inputs.githubToken)
    THEN LET repoInfo == ParseRepoName(inputs.repoName.v)
         IN  IF ~repoInfo.ok
             THEN [threw |-> FALSE, githubService |-> NoService,
                   log |-> FailedLog("Invalid repository name") \o LazyLog]
             ELSE LET before ==
                          << [level |-> "debug", msg |-> "Creating GitHubService with config",
                              meta |-> [owner |-> repoInfo.owner, repo |-> repoInfo.repo,
                                        hasToken |-> Truthy(inputs.githubToken),
                                        githubApiUrl |-> inputs.githubApiUrl,
                                        hasGithubApiUrl |-> Truthy(inputs.githubApiUrl)]] >>
                      made == GitHubServiceNew([token |-> inputs.githubToken.v, owner |-> repoInfo.owner,
                                                repo |-> repoInfo.repo, baseUrl |-> inputs.githubApiUrl],
                                               octokitThrows)
                  IN  IF made.threw
                      THEN [threw |-> FALSE, githubService |-> NoService,
                            log |-> before \o made.log
                                    \o FailedLog("Failed to initialize GitHub API client") \o LazyLog]
                      ELSE [threw |-> FALSE, githubService |-> made.service,
                            log |-> before \o made.log \o
                                << [level |-> "debug",
                                    msg |-> "PRExtractor created with pre-configured GitHubService",
                                    meta |-> [owner |-> repoInfo.owner, repo |-> repoInfo.repo]] >>]
    ELSE [threw |-> FALSE, githubService |-> NoService, log |-> LazyLog]

NoExtractor == [state |-> "none", githubService |-> NoService]

\* Whether the client library is asked to build a client for this bundle.
ReachesClient(inputs) ==
    Truthy(inputs.repoName) /\ Truthy(inputs.githubToken) /\ ParseRepoName(inputs.repoName.v).ok

(***************************************************************************)
(* Errors.  status 0 stands for an error that carries no status.           *)
(***************************************************************************)
NoError == [name |-> "none", status |-> 0, message |-> "none"]

\* What the API client raises: an HTTP failure with its status, or a
\* transport failure without one.
ClientFaults ==
    {[name |-> "HttpError", status |-> s, message |-> "remote"] : s \in {401, 404, 500}}
    \cup {[name |-> "FetchError", status |-> 0, message |-> "network"]}

ServerFault == [name |-> "HttpError", status |-> 500, message |-> "remote"]
FileFault == [name |-> "Error", status |-> 0, message |-> "EACCES"]

NotProvided == [name |-> "Error", status |-> 0, message |-> "GitHubService not provided"]

(***************************************************************************)
(* GitHubService.getPullRequest                                            *)
(***************************************************************************)
S_unknown == <<"u", "n", "k", "n", "o", "w", "n">>
S_alice == <<"a", "l", "i", "c", "e">>
S_Fix == <<"F", "i", "x">>

\* The pull requests the remote may answer with (body: null, empty or text;
\* user login present or not).
RemotePulls(pullNumber) ==
    { [number |-> pullNumber, title |-> "title", state |-> "open",
       body |-> bl[1], login |-> bl[2], head |-> "head", base |-> "base"]
      : bl \in { <<Undefined, Some(S_alice)>>, <<Some(<<>>), Undefined>>, <<Some(S_Fix), Some(S_alice)>> } }

NoPull ==
    [number |-> 0, title |-> "none", state |-> "none",
     body |-> Undefined, login |-> Undefined, head |-> "none", base |-> "none"]

\* The PullRequestInfo built from the response.
PullRequestInfo(data) ==
    [number |-> data.number, title |-> data.title, body |-> data.body, state |-> data.state,
     user |-> [login |-> IF Truthy(data.login) THEN data.login.v ELSE S_unknown],
     head |-> data.head, base |-> data.base]

NoInfo ==
    [number |-> 0, title |-> "none", body |-> Undefined, state |-> "none",
     user |-> [login |-> <<>>], head |-> "none", base |-> "none"]

\* A catch block that replaces the client's error by a categorised one.
GetPullRequestCatch_Categorised(error) ==
    [thrown |-> [name |-> IF error.status = 401 THEN "AuthenticationError"
                          ELSE IF error.status = 404 THEN "NotFoundError"
                          ELSE "ApiError",
                 status |-> error.status, message |-> error.message],
     guidance |-> IF error.status = 401 THEN "authentication"
                  ELSE IF error.status = 404 THEN "not_found"
                  ELSE "generic"]

\* The catch block of getPullRequest: what it logs and what it throws.
GetPullRequestCatch(error) ==
    [thrown |-> error,
     guidance |-> IF error.status = 401 THEN "authentication"
                  ELSE IF error.status = 404 THEN "not_found"
                  ELSE "generic"]

(***************************************************************************)
(* GitHubService.getPullRequestFiles                                       *)
(***************************************************************************)
perPage == 100

RECURSIVE NumberToString(_)
\* Number.prototype.toString for a natural number.
NumberToString(n) ==
    LET digit == <<"0", "1", "2", "3", "4", "5", "6", "7", "8", "9">>
    IN  IF n < 10 THEN <<digit[n + 1]>>
        ELSE NumberToString(n \div 10) \o <<digit[(n % 10) + 1]>>

\* One entry of the listing endpoint's answer; sha is a field the service drops.
RemoteFile(name, k) ==
    [filename |-> name, status |-> "modified", additions |-> k, deletions |-> 0,
     changes |-> k, sha |-> "sha"]

PagePatterns == {"distinct", "same", "descending"}

\* A page of len entries the remote may answer page number page with.
RemotePage(pattern, page, len) ==
    [i \in 1..len |->
        IF pattern = "same" THEN RemoteFile(<<"a", ".", "t", "s">>, 1)
        ELSE IF pattern = "descending" THEN RemoteFile(<<"z">> \o NumberToString(len - i), i)
        ELSE RemoteFile(<<"f">> \o NumberToString(page) \o <<"_">> \o NumberToString(i), i)]

\* Page number page of a well-behaved listing of n files.
ListingPage(n, page) ==
    LET first == (page - 1) * perPage
        len == Max(0, Min(perPage, n - first))
    IN  [i \in 1..len |-> RemoteFile(<<"f">> \o NumberToString(first + i), first + i)]

\* The PullRequestFile kept of a listing entry.
PullRequestFile(file) ==
    [filename |-> file.filename, status |-> file.status, additions |-> file.additions,
     deletions |-> file.deletions, changes |-> file.changes]

\* The call's locals (page, allFiles), with the requests made and the pages
\* received so far.
FilesFrame(status, page, allFiles, requests, received) ==
    [status |-> status, page |-> page, allFiles |-> allFiles,
     requests |-> requests, received |-> received]

NoFiles == FilesFrame("none", 0, << >>, << >>, << >>)

\* Up to the first listFiles request.
ListFilesStart ==
    FilesFrame("await", 1, << >>, <<[per_page |-> perPage, page |-> 1]>>, << >>)

\* The loop with the new page put in front of the earlier ones.
ListFilesResume_Prepend(fr, data) ==
    LET pageFiles == [i \in 1..Len(data) |-> PullRequestFile(data[i])]
    IN  IF Len(data) < perPage
        THEN FilesFrame("returned", fr.page, pageFiles \o fr.allFiles, fr.requests, Append(fr.received, data))
        ELSE FilesFrame("await", fr.page + 1, pageFiles \o fr.allFiles,
                        Append(fr.requests, [per_page |-> perPage, page |-> fr.page + 1]),
                        Append(fr.received, data))

\* The loop ending only on an empty page.
ListFilesResume_UntilEmpty(fr, data) ==
    LET pageFiles == [i \in 1..Len(data) |-> PullRequestFile(data[i])]
        allFiles == fr.allFiles \o pageFiles
    IN  IF Len(data) = 0
        THEN FilesFrame("returned", fr.page, allFiles, fr.requests, Append(fr.received, data))
        ELSE FilesFrame("await", fr.page + 1, allFiles,
                        Append(fr.requests, [per_page |-> perPage, page |-> fr.page + 1]),
                        Append(fr.received, data))

\* From one listFiles answer to the next request, or to the return.
ListFilesResume(fr, data) ==
    LET pageFiles == [i \in 1..Len(data) |-> PullRequestFile(data[i])]
        allFiles == fr.allFiles \o pageFiles
    IN  IF Len(data) < perPage
        THEN FilesFrame("returned", fr.page, allFiles, fr.requests, Append(fr.received, data))
        ELSE FilesFrame("await", fr.page + 1, allFiles,
                        Append(fr.requests, [per_page |-> perPage, page |-> fr.page + 1]),
                        Append(fr.received, data))

\* The catch block of getPullRequestFiles.
GetPullRequestFilesCatch(error) == error

(***************************************************************************)
(* GitHubService.getPullRequestDiff                                        *)
(***************************************************************************)
\* UTF-16 code units: "a" (1 byte in UTF-8), "e" (2 bytes), "c" (3 bytes),
\* "H" and "L" (a high and a low surrogate: 4 bytes as a pair, 3 bytes alone).
DiffUnits == {"a", "e", "c", "H", "L"}

RECURSIVE ByteLengthFrom(_, _)
ByteLengthFrom(s, i) ==
    IF i > Len(s) THEN 0
    ELSE IF s[i] = "H" /\ i < Len(s) /\ s[i + 1] = "L" THEN 4 + ByteLengthFrom(s, i + 2)
    ELSE IF s[i] \in {"H", "L"} THEN 3 + ByteLengthFrom(s, i + 1)
    ELSE IF s[i] = "c" THEN 3 + ByteLengthFrom(s, i + 1)
    ELSE IF s[i] = "e" THEN 2 + ByteLengthFrom(s, i + 1)
    ELSE 1 + ByteLengthFrom(s, i + 1)

\* Buffer.byteLength(content, 'utf8')
ByteLength(s) == ByteLengthFrom(s, 1)

\* The PullRequestDiff built from the diff text.
PullRequestDiff(content) ==
    LET size == ByteLength(content)
        truncated == size > MAX_DIFF_SIZE
    IN  [content |-> IF truncated THEN Substring(content, 0, MAX_DIFF_SIZE) ELSE content,
         size |-> size,
         truncated |-> truncated]

NoDiff == [content |-> << >>, size |-> 0, truncated |-> FALSE]

\* The catch block of getPullRequestDiff.
GetPullRequestDiffCatch(error) == error

\* Every diff text of at most n code units.
Texts(n) == UNION {[1..k -> DiffUnits] : k \in 0..n}

(***************************************************************************)
(* PRExtractor.writeDiffFile: the path of the diff file.                   *)
(***************************************************************************)
\* PATHS.TEMP_DIR and PATHS.DIFF_FILE_PATTERN of config/constants.
TEMP_DIR == <<"/", "t", "m", "p">>
S_placeholder == <<"{", "p", "u", "l", "l", "N", "u", "m", "b", "e", "r", "}">>
DIFF_FILE_PATTERN == <<"p", "r", "-">> \o S_placeholder \o <<".", "d", "i", "f", "f">>

\* The first position (from 1) at which pat occurs in s, or 0.
IndexOf(s, pat) ==
    LET hits == {k \in 1..(Len(s) - Len(pat) + 1) : Substring(s, k - 1, k - 1 + Len(pat)) = pat}
    IN  IF hits = {} THEN 0 ELSE CHOOSE k \in hits : \A j \in hits : k <= j

\* String.prototype.replace with a string pattern: the first occurrence only.
ReplaceFirst(s, pat, rep) ==
    LET k == IndexOf(s, pat)
    IN  IF k = 0 THEN s
        ELSE Substring(s, 0, k - 1) \o rep \o Substring(s, k - 1 + Len(pat), Len(s))

\* path.join of a directory and a file name.
PathJoin(dir, name) == dir \o S_slash \o name

\* A path that leaves the pull-request number out.
DiffFilePath_Fixed(pullNumber) == PathJoin(TEMP_DIR, DIFF_FILE_PATTERN)

\* diffFilePath of writeDiffFile.
DiffFilePath(pullNumber) ==
    PathJoin(TEMP_DIR, ReplaceFirst(DIFF_FILE_PATTERN, S_placeholder, NumberToString(pullNumber)))

\* A catch block that raises an error of its own.
WriteDiffFileCatch_Wrap(error) ==
    [name |-> "Error", status |-> 0, message |-> "Failed to write diff file"]

\* The catch block of writeDiffFile.
WriteDiffFileCatch(error) == error

PullNumbers == 1..MaxPull
AllPaths == {DiffFilePath(n) : n \in PullNumbers}

NoFile == [exists |-> FALSE, content |-> << >>, writer |-> 0]

\* FileUtils.writeFile: the file holds the content, whatever it held before.
WriteFile(files, path, content, who) ==
    [files EXCEPT ![path] = [exists |-> TRUE, content |-> content, writer |-> who]]

\* FileUtils.ensureDirectoryExists: the directory exists afterwards.
EnsureDirectoryExists(ds, dir) == ds \cup {dir}

(***************************************************************************)
(* PRExtractor.performExtraction: the record.                              *)
(***************************************************************************)
S_newline == <<"\n">>

RECURSIVE JoinFrom(_, _, _)
JoinFrom(parts, sep, i) ==
    IF i > Len(parts) THEN << >>
    ELSE IF i = Len(parts) THEN parts[i]
    ELSE parts[i] \o sep \o JoinFrom(parts, sep, i + 1)

\* Array.prototype.join
Join(parts, sep) == JoinFrom(parts, sep, 1)

NoRecord ==
    [present |-> FALSE, number |-> 0, title |-> "none", author |-> << >>, head |-> "none",
     base |-> "none", body |-> << >>, state |-> "none", changed_files |-> << >>,
     changed_files_list |-> << >>, diff_file |-> << >>]

\* The record with the body copied as fetched.
ExtractedData_RawBody(prData, files, diffFilePath) ==
    [present |-> TRUE, number |-> prData.number, title |-> prData.title,
     author |-> prData.user.login, head |-> prData.head, base |-> prData.base,
     body |-> IF prData.body.def THEN prData.body.v ELSE <<"n", "u", "l", "l">>,
     state |-> prData.state,
     changed_files |-> Join([i \in 1..Len(files) |-> files[i].filename], S_newline),
     changed_files_list |-> files,
     diff_file |-> diffFilePath]

\* extractedData
ExtractedData(prData, files, diffFilePath) ==
    [present |-> TRUE, number |-> prData.number, title |-> prData.title,
     author |-> prData.user.login, head |-> prData.head, base |-> prData.base,
     body |-> IF Truthy(prData.body) THEN prData.body.v ELSE << >>,
     state |-> prData.state,
     changed_files |-> Join([i \in 1..Len(files) |-> files[i].filename], S_newline),
     changed_files_list |-> files,
     diff_file |-> diffFilePath]

(***************************************************************************)
(* The callers.                                                            *)
(***************************************************************************)
Procs == {1, 2}

\* A caller's record: pc (where the call stands), entry (the method called),
\* calls (the collaborator operations invoked so far, in order), fault and
\* failedAt (the failure a collaborator answered with, and which one), error
\* (what the call raised to its caller), guidance (the remediation text
\* getPullRequest logged), pull and text (what the remote served), prData,
\* files and diff (the service's results), path and record.

NoRemote == [kind |-> "none", n |-> 0]

IdleProc ==
    [pc |-> "idle", entry |-> "none", pullNumber |-> 0, calls |-> << >>,
     fault |-> NoError, failedAt |-> "none", error |-> NoError, guidance |-> "none",
     pull |-> NoPull, prData |-> NoInfo,
     remote |-> NoRemote, files |-> NoFiles,
     text |-> << >>, diff |-> NoDiff,
     path |-> << >>, record |-> NoRecord]

\* An answer of a collaborator: a value, or a fault.
Ok(d) == [ok |-> TRUE, data |-> d, fault |-> NoError]
Fault(f, d) == [ok |-> FALSE, data |-> d, fault |-> f]

PullAnswers(pullNumber) ==
    {Ok(d) : d \in RemotePulls(pullNumber)} \cup {Fault(f, NoPull) : f \in ClientFaults}

\* The sizes of the well-behaved listings.
ListingSizes == {0, 1, perPage - 1, perPage, perPage + 1, 2 * perPage}

\* What the listing endpoint may answer a request for a page with: the page
\* of a well-behaved listing, any page at all or a failure, or (in an
\* extraction) an empty page, a page of two or a failure.
FilesAnswers(remote, page) ==
    IF remote.kind = "listing" THEN {Ok(ListingPage(remote.n, page))}
    ELSE IF remote.kind = "any"
    THEN {Ok(RemotePage(pt, page, len)) : pt \in PagePatterns, len \in {0, 1, perPage - 1, perPage}}
         \cup {Fault(ServerFault, << >>)}
    ELSE {Ok(RemotePage("distinct", page, len)) : len \in {0, 2}}
         \cup {Fault(ServerFault, << >>)}

\* The diff texts served to an extraction: a short one and one past the maximum.
ExtractionTexts == { <<"a">>, [i \in 1..(MAX_DIFF_SIZE + 1) |-> "e"] }

(***************************************************************************)
(* Actions.                                                                *)
(***************************************************************************)
\* PRExtractor.create(inputs), for a bundle of the set I.
Create(I) ==
    /\ extractor.state = "none"
    /\ \E inputs \in I, octokitThrows \in BOOLEAN :
          LET r == PRExtractorCreate(inputs, octokitThrows)
          IN  /\ ReachesClient(inputs) \/ ~octokitThrows
              /\ created' = [called |-> TRUE, inputs |-> inputs, octokitThrows |-> octokitThrows]
              /\ extractor' = [state |-> IF r.threw THEN "threw" ELSE "created",
                               githubService |-> r.githubService]
              /\ log' = r.log
    /\ UNCHANGED <<should, proc, fs, dirs>>

CreateSmall == Create(SmallInputs)
CreateAny == Create(AllInputs)

\* extractor.shouldExtract(inputs), with the bundle the extractor was created from.
ShouldExtractCall ==
    /\ extractor.state = "created"
    /\ ~should.called
    /\ should' = [called |-> TRUE, inputs |-> created.inputs, value |-> ShouldExtract(created.inputs)]
    /\ UNCHANGED <<created, extractor, log, proc, fs, dirs>>

\* performExtraction up to its first await: the adapter check and the call
\* of getPullRequest.
Extract(p) ==
    /\ extractor.state = "created"
    /\ proc[p].pc = "idle"
    /\ \E n \in PullNumbers :
          proc' = [proc EXCEPT ![p] =
              IF ~extractor.githubService.present
              THEN [@ EXCEPT !.pc = "failed", !.entry = "performExtraction",
                             !.pullNumber = n, !.error = NotProvided]
              ELSE [@ EXCEPT !.pc = "awaitPR", !.entry = "performExtraction",
                             !.pullNumber = n, !.calls = <<"getPullRequest">>]]
    /\ UNCHANGED <<created, extractor, log, should, fs, dirs>>

\* The answer to pulls.get: getPullRequest returns and getPullRequestFiles
\* makes its first request, or getPullRequest throws.
PullResponse(p) ==
    /\ proc[p].pc = "awaitPR"
    /\ \E a \in PullAnswers(proc[p].pullNumber) :
          proc' = [proc EXCEPT ![p] =
              IF a.ok
              THEN [@ EXCEPT !.pc = "awaitFiles", !.pull = a.data,
                             !.prData = PullRequestInfo(a.data),
                             !.calls = Append(@, "getPullRequestFiles"),
                             !.remote = [kind |-> "few", n |-> 0],
                             !.files = ListFilesStart]
              ELSE LET c == GetPullRequestCatch(a.fault)
                   IN  [@ EXCEPT !.pc = "failed", !.fault = a.fault,
                                 !.failedAt = "getPullRequest",
                                 !.error = c.thrown, !.guidance = c.guidance]]
    /\ UNCHANGED <<created, extractor, log, should, fs, dirs>>

\* The answer to one listFiles request, inside performExtraction: the next
\* request, or the return of getPullRequestFiles and the call of
\* getPullRequestDiff by writeDiffFile, or the throw.
FilesResponse(p) ==
    /\ proc[p].pc = "awaitFiles"
    /\ proc[p].entry = "performExtraction"
    /\ proc[p].files.page <= MaxPages
    /\ \E a \in FilesAnswers(proc[p].remote, proc[p].files.page) :
          proc' = [proc EXCEPT ![p] =
              IF a.ok
              THEN LET fr == ListFilesResume(proc[p].files, a.data)
                   IN  IF fr.status = "returned"
                       THEN [@ EXCEPT !.pc = "awaitDiff", !.files = fr,
                                      !.calls = Append(@, "getPullRequestDiff")]
                       ELSE [@ EXCEPT !.files = fr]
              ELSE [@ EXCEPT !.pc = "failed", !.fault = a.fault,
                             !.failedAt = "getPullRequestFiles",
                             !.files = [@ EXCEPT !.status = "threw"],
                             !.error = GetPullRequestFilesCatch(a.fault)]]
    /\ UNCHANGED <<created, extractor, log, should, fs, dirs>>

\* The answer to the diff request, inside writeDiffFile: getPullRequestDiff
\* returns and ensureDirectoryExists is called, or the throw.
DiffResponse(p) ==
    /\ proc[p].pc = "awaitDiff"
    /\ proc[p].entry = "performExtraction"
    /\ \E a \in {Ok(t) : t \in ExtractionTexts} \cup {Fault(ServerFault, << >>)} :
          proc' = [proc EXCEPT ![p] =
              IF a.ok
              THEN [@ EXCEPT !.pc = "awaitMkdir", !.text = a.data,
                             !.diff = PullRequestDiff(a.data),
                             !.path = DiffFilePath(proc[p].pullNumber),
                             !.calls = Append(@, "ensureDirectoryExists")]
              ELSE [@ EXCEPT !.pc = "failed", !.fault = a.fault,
                             !.failedAt = "getPullRequestDiff",
                             !.error = WriteDiffFileCatch(GetPullRequestDiffCatch(a.fault))]]
    /\ UNCHANGED <<created, extractor, log, should, fs, dirs>>

\* ensureDirectoryExists settles: writeFile is called, or the throw.
MkdirResponse(p) ==
    /\ proc[p].pc = "awaitMkdir"
    /\ \E failed \in BOOLEAN :
          IF failed
          THEN /\ proc' = [proc EXCEPT ![p] =
                      [@ EXCEPT !.pc = "failed", !.fault = FileFault,
                                !.failedAt = "ensureDirectoryExists",
                                !.error = WriteDiffFileCatch(FileFault)]]
               /\ UNCHANGED dirs
          ELSE /\ dirs' = EnsureDirectoryExists(dirs, TEMP_DIR)
               /\ proc' = [proc EXCEPT ![p] =
                      [@ EXCEPT !.pc = "awaitWrite", !.calls = Append(@, "writeFile")]]
    /\ UNCHANGED <<created, extractor, log, should, fs>>

\* writeFile settles: the file is written, or the throw.
WriteResponse(p) ==
    /\ proc[p].pc = "awaitWrite"
    /\ \E failed \in BOOLEAN :
          IF failed
          THEN /\ proc' = [proc EXCEPT ![p] =
                      [@ EXCEPT !.pc = "failed", !.fault = FileFault,
                                !.failedAt = "writeFile",
                                !.error = WriteDiffFileCatch(FileFault)]]
               /\ UNCHANGED fs
          ELSE /\ fs' = WriteFile(fs, proc[p].path, proc[p].diff.content, p)
               /\ proc' = [proc EXCEPT ![p] = [@ EXCEPT !.pc = "written"]]
    /\ UNCHANGED <<created, extractor, log, should, dirs>>

\* After the write: writeDiffFile returns the path and performExtraction
\* assembles and returns the record.
Return(p) ==
    /\ proc[p].pc = "written"
    /\ proc' = [proc EXCEPT ![p] =
          [@ EXCEPT !.pc = "done",
                    !.record = ExtractedData(proc[p].prData, proc[p].files.allFiles, proc[p].path)]]
    /\ UNCHANGED <<created, extractor, log, should, fs, dirs>>

\* A direct call of getPullRequestFiles, up to its first request, against a
\* well-behaved listing or against a remote that answers anything.
FilesCall(p) ==
    /\ proc[p].pc = "idle"
    /\ \E n \in PullNumbers,
          r \in {[kind |-> "listing", n |-> k] : k \in ListingSizes} \cup {[kind |-> "any", n |-> 0]} :
          proc' = [proc EXCEPT ![p] =
              [@ EXCEPT !.pc = "awaitFiles", !.entry = "getPullRequestFiles", !.pullNumber = n,
                        !.remote = r, !.files = ListFilesStart]]
    /\ UNCHANGED <<created, extractor, log, should, fs, dirs>>

\* The answer to one listFiles request of a direct call.
FilesAnswer(p) ==
    /\ proc[p].pc = "awaitFiles"
    /\ proc[p].entry = "getPullRequestFiles"
    /\ proc[p].files.page <= MaxPages
    /\ \E a \in FilesAnswers(proc[p].remote, proc[p].files.page) :
          proc' = [proc EXCEPT ![p] =
              IF a.ok
              THEN LET fr == ListFilesResume(proc[p].files, a.data)
                   IN  [@ EXCEPT !.files = fr,
                                 !.pc = IF fr.status = "returned" THEN "done" ELSE "awaitFiles"]
              ELSE [@ EXCEPT !.pc = "failed", !.fault = a.fault,
                             !.failedAt = "getPullRequestFiles",
                             !.files = [@ EXCEPT !.status = "threw"],
                             !.error = GetPullRequestFilesCatch(a.fault)]]
    /\ UNCHANGED <<created, extractor, log, should, fs, dirs>>

\* A direct call of getPullRequestDiff, up to its request.
DiffCall(p) ==
    /\ proc[p].pc = "idle"
    /\ \E n \in PullNumbers :
          proc' = [proc EXCEPT ![p] =
              [@ EXCEPT !.pc = "awaitDiff", !.entry = "getPullRequestDiff", !.pullNumber = n]]
    /\ UNCHANGED <<created, extractor, log, should, fs, dirs>>

\* The answer to the diff request of a direct call.
DiffAnswer(p) ==
    /\ proc[p].pc = "awaitDiff"
    /\ proc[p].entry = "getPullRequestDiff"
    /\ \E a \in {Ok(t) : t \in Texts(MAX_DIFF_SIZE + DiffSlack)} \cup {Fault(ServerFault, << >>)} :
          proc' = [proc EXCEPT ![p] =
              IF a.ok
              THEN [@ EXCEPT !.pc = "done", !.text = a.data, !.diff = PullRequestDiff(a.data)]
              ELSE [@ EXCEPT !.pc = "failed", !.fault = a.fault,
                             !.failedAt = "getPullRequestDiff",
                             !.error = GetPullRequestDiffCatch(a.fault)]]
    /\ UNCHANGED <<created, extractor, log, should, fs, dirs>>

(***************************************************************************)
(* Specifications.                                                         *)
(***************************************************************************)
NotCreated == [called |-> FALSE, inputs |-> NoInputs, octokitThrows |-> FALSE]
NotAsked == [called |-> FALSE, inputs |-> NoInputs, value |-> FALSE]

\* A service built from a complete bundle.
ReadyInputs ==
    [pullNumber |-> Num(1), repoName |-> Some(<<"o", "/", "r">>),
     githubToken |-> Some(S_ghp \o <<"A", "1">>), githubApiUrl |-> Undefined]

Blank ==
    /\ should = NotAsked
    /\ proc = [p \in Procs |-> IdleProc]
    /\ fs = [path \in AllPaths |-> NoFile]
    /\ dirs = {}

\* Before PRExtractor.create.
Init ==
    /\ created = NotCreated
    /\ extractor = NoExtractor
    /\ log = << >>
    /\ Blank

\* After PRExtractor.create(ReadyInputs).
InitReady ==
    /\ created = [called |-> TRUE, inputs |-> ReadyInputs, octokitThrows |-> FALSE]
    /\ extractor = [state |-> "created",
                    githubService |-> PRExtractorCreate(ReadyInputs, FALSE).githubService]
    /\ log = PRExtractorCreate(ReadyInputs, FALSE).log
    /\ Blank

\* create, then extractions by two callers.
Next ==
    \/ CreateSmall
    \/ \E p \in Procs :
          \/ Extract(p)
          \/ PullResponse(p)
          \/ FilesResponse(p)
          \/ DiffResponse(p)
          \/ MkdirResponse(p)
          \/ WriteResponse(p)
          \/ Return(p)

Spec == Init /\ [][Next]_vars

\* create with any bundle, then shouldExtract.
NextCreate == CreateAny \/ ShouldExtractCall

SpecCreate == Init /\ [][NextCreate]_vars

\* getPullRequestFiles called on a service.
NextFiles == FilesCall(1) \/ FilesAnswer(1)

SpecFiles == InitReady /\ [][NextFiles]_vars

\* The same, every request being answered in the end.
SpecFilesFair == SpecFiles /\ WF_vars(NextFiles)

\* getPullRequestDiff called on a service.
NextDiff == DiffCall(1) \/ DiffAnswer(1)

SpecDiff == InitReady /\ [][NextDiff]_vars

(***************************************************************************)
(* Properties.                                                             *)
(***************************************************************************)
Extracting(p) == proc[p].entry = "performExtraction"
FailedAt(p, step) == Extracting(p) /\ proc[p].pc = "failed" /\ proc[p].failedAt = step

C2_LogIndependentOfToken ==
    (created.called /\ Truthy(created.inputs.githubToken)) =>
        \A t \in Tokens :
            ( /\ Len(t) = Len(created.inputs.githubToken.v)
              /\ TokenPrefix(t) = TokenPrefix(created.inputs.githubToken.v)
              /\ TokenType(t) = TokenType(created.inputs.githubToken.v) )
            => PRExtractorCreate([created.inputs EXCEPT !.githubToken = Some(t)],
                                 created.octokitThrows).log = log

\* C3, as stated: size is the UTF-8 byte length of the full text, truncated
\* holds exactly when size > MAX_DIFF_SIZE, a truncated content has exactly
\* MAX_DIFF_SIZE code units and an untruncated content is the full text.
C3_TruncationContract ==
    \A p \in Procs :
        (proc[p].entry = "getPullRequestDiff" /\ proc[p].pc = "done") =>
            /\ proc[p].diff.size = ByteLength(proc[p].text)
            /\ proc[p].diff.truncated <=> (proc[p].diff.size > MAX_DIFF_SIZE)
            /\ proc[p].diff.truncated => Len(proc[p].diff.content) = MAX_DIFF_SIZE
            /\ ~proc[p].diff.truncated => proc[p].diff.content = proc[p].text

CallOrder ==
    <<"getPullRequest", "getPullRequestFiles", "getPullRequestDiff",
      "ensureDirectoryExists", "writeFile">>

StepIndex(step) == CHOOSE i \in 1..Len(CallOrder) : CallOrder[i] = step

\* C4: an extraction with an adapter invokes getPullRequest,
\* getPullRequestFiles, getPullRequestDiff, ensureDirectoryExists and
\* writeFile in this order, each at most once and nothing else
\* (testAuthentication never); when one fails the calls end with it, its
\* error is raised unchanged and no record is returned, and no file is
\* written when a fetch fails.
C4_FixedOrderShortCircuit ==
    \A p \in Procs :
        (Extracting(p) /\ extractor.githubService.present) =>
            /\ Len(proc[p].calls) \in 1..Len(CallOrder)
            /\ proc[p].calls = SubSeq(CallOrder, 1, Len(proc[p].calls))
            /\ proc[p].pc = "done" => (proc[p].calls = CallOrder /\ proc[p].record.present)
            /\ proc[p].pc # "done" => proc[p].record = NoRecord
            /\ proc[p].pc = "failed" =>
                  /\ proc[p].failedAt \in {CallOrder[i] : i \in 1..Len(CallOrder)}
                  /\ Len(proc[p].calls) = StepIndex(proc[p].failedAt)
                  /\ proc[p].error = proc[p].fault
                  /\ proc[p].error # NoError
                  /\ proc[p].failedAt \in {"getPullRequest", "getPullRequestFiles", "getPullRequestDiff"}
                        => \A path \in AllPaths : fs[path].writer # p

\* One extraction failed at the files fetch, one at the diff fetch.
C4_Witness ==
    \E p, q \in Procs :
        /\ FailedAt(p, "getPullRequestFiles")
        /\ FailedAt(q, "getPullRequestDiff")

Flatten(pages) == Join(pages, << >>)

RECURSIVE SumLen(_, _)
SumLen(pages, i) == IF i > Len(pages) THEN 0 ELSE Len(pages[i]) + SumLen(pages, i + 1)

\* C5: the pages are requested as 1, 2, 3, ... with page size 100, each
\* once, page N+1 only after page N came back with exactly 100 entries, and
\* the files gathered are the pages' entries in request order, none moved
\* and none dropped.
C5_PagesInOrder ==
    \A p \in Procs :
        LET fr == proc[p].files
        IN  (proc[p].entry = "getPullRequestFiles" /\ fr.status # "none") =>
              /\ \A i \in 1..Len(fr.requests) :
                    fr.requests[i].page = i /\ fr.requests[i].per_page = 100
              /\ Len(fr.requests) = Len(fr.received) + (IF fr.status = "returned" THEN 0 ELSE 1)
              /\ \A i \in 1..(Len(fr.requests) - 1) : Len(fr.received[i]) = 100
              /\ Len(fr.allFiles) = SumLen(fr.received, 1)
              /\ \A i \in 1..Len(fr.allFiles) :
                    /\ fr.allFiles[i].filename = Flatten(fr.received)[i].filename
                    /\ fr.allFiles[i].additions = Flatten(fr.received)[i].additions

\* A call returned two pages and kept entries that are equal.
C5_Witness ==
    \E p \in Procs :
        /\ proc[p].entry = "getPullRequestFiles"
        /\ proc[p].files.status = "returned"
        /\ Len(proc[p].files.received) = 2
        /\ Len(proc[p].files.received[2]) = 1
        /\ proc[p].files.allFiles[1] = proc[p].files.allFiles[2]

C7_ShouldExtractPure ==
    [][ should' # should =>
          /\ should'.called
          /\ should'.value <=>
                ( /\ should'.inputs.pullNumber.def
                  /\ should'.inputs.pullNumber.n > 0
                  /\ should'.inputs.repoName.def /\ Len(should'.inputs.repoName.v) > 0
                  /\ should'.inputs.githubToken.def /\ Len(should'.inputs.githubToken.v) > 0 )
          /\ UNCHANGED <<created, extractor, log, proc, fs, dirs>> ]_vars

\* shouldExtract answered true.
C7_Witness == should.called /\ should.value

\* The pieces of s between the occurrences of the character c.
RECURSIVE SplitFrom(_, _, _, _)
SplitFrom(s, c, i, piece) ==
    IF i > Len(s) THEN <<piece>>
    ELSE IF s[i] = c THEN <<piece>> \o SplitFrom(s, c, i + 1, << >>)
    ELSE SplitFrom(s, c, i + 1, Append(piece, s[i]))

\* C8: the record of a successful extraction has the fetched body (the
\* empty string for null), the fetched files' names joined by single
\* newlines in order (the empty string for no files), the fetched file
\* list, and the path of the written diff file, not its content.
C8_RecordFields ==
    \A p \in Procs :
        (Extracting(p) /\ proc[p].pc = "done") =>
            LET r == proc[p].record
                fetched == Flatten(proc[p].files.received)
                names == [i \in 1..Len(fetched) |-> fetched[i].filename]
            IN  /\ r.present
                /\ r.body = IF proc[p].pull.body.def THEN proc[p].pull.body.v ELSE << >>
                /\ IF Len(names) = 0 THEN r.changed_files = << >>
                   ELSE SplitFrom(r.changed_files, "\n", 1, << >>) = names
                /\ Len(r.changed_files_list) = Len(fetched)
                /\ \A i \in 1..Len(fetched) : r.changed_files_list[i] = PullRequestFile(fetched[i])
                /\ r.diff_file = proc[p].path
                /\ fs[r.diff_file].exists
                /\ r.diff_file # proc[p].diff.content

\* An extraction of a pull request with a null body and two files returned.
C8_Witness ==
    \E p \in Procs :
        /\ Extracting(p) /\ proc[p].pc = "done"
        /\ ~proc[p].pull.body.def
        /\ Len(proc[p].record.changed_files_list) = 2

\* The state of the paging loop: it has returned only after a page with
\* fewer than 100 entries, and while every page so far was full another
\* request is out, however many there were; a well-behaved listing of n
\* files costs floor(n/100)+1 requests, the last one answered by an empty
\* page when n is a positive multiple of 100.
C9_LoopInvariant ==
    \A p \in Procs :
        LET fr == proc[p].files
            k == Len(fr.received)
        IN  (proc[p].entry = "getPullRequestFiles" /\ fr.status # "none") =>
              /\ fr.status = "returned" => (k > 0 /\ Len(fr.received[k]) < 100)
              /\ fr.status = "await" =>
                    /\ \A i \in 1..k : Len(fr.received[i]) = 100
                    /\ Len(fr.requests) = k + 1
              /\ fr.status = "threw" => proc[p].fault # NoError
              /\ (fr.status = "returned" /\ proc[p].remote.kind = "listing") =>
                    /\ Len(fr.requests) = (proc[p].remote.n \div 100) + 1
                    /\ Len(fr.allFiles) = proc[p].remote.n
                    /\ (proc[p].remote.n > 0 /\ proc[p].remote.n % 100 = 0) => fr.received[k] = << >>

\* C9: the paging ends exactly when a page comes back with fewer than 100
\* entries (or a request fails): the loop invariant above holds throughout
\* (so full pages alone never end it), and against a well-behaved listing,
\* whose every request is answered, the call returns.
C9_EndsOnShortPage ==
    /\ []C9_LoopInvariant
    /\ \A p \in Procs :
          (proc[p].entry = "getPullRequestFiles" /\ proc[p].remote.kind = "listing")
              ~> (proc[p].files.status = "returned")

\* A listing of exactly 100 files took two requests, the second answered
\* by an empty page.
C9_Witness ==
    \E p \in Procs :
        /\ proc[p].entry = "getPullRequestFiles"
        /\ proc[p].remote = [kind |-> "listing", n |-> 100]
        /\ proc[p].files.status = "returned"
        /\ Len(proc[p].files.requests) = 2
        /\ proc[p].files.received[2] = << >>

\* C10: the diff path depends on the pull-request number alone, different
\* numbers give different paths, and an extraction that ran alone, or
\* beside an extraction of another pull request, leaves its own (possibly
\* truncated) diff at its record's diff_file.
C10_PathPerPullNumber ==
    /\ \A p \in Procs :
          proc[p].path # << >> =>
              proc[p].path = TEMP_DIR \o <<"/", "p", "r", "-">>
                             \o NumberToString(proc[p].pullNumber) \o <<".", "d", "i", "f", "f">>
    /\ \A p, q \in Procs :
          /\ (proc[p].path # << >> /\ proc[q].path # << >>) =>
                ((proc[p].pullNumber = proc[q].pullNumber) <=> (proc[p].path = proc[q].path))
          /\ (Extracting(p) /\ proc[p].pc = "done" /\ p # q
              /\ (proc[q].pc = "idle" \/ proc[q].pullNumber # proc[p].pullNumber)) =>
                /\ fs[proc[p].record.diff_file].writer = p
                /\ fs[proc[p].record.diff_file].content
                      = Substring(proc[p].text, 0, IF ByteLength(proc[p].text) > MAX_DIFF_SIZE
                                                   THEN MAX_DIFF_SIZE ELSE Len(proc[p].text))

\* Two extractions of the same pull request: one has returned a record
\* whose diff_file holds the content the other one wrote.
C10_Witness ==
    \E p, q \in Procs :
        /\ p # q
        /\ Extracting(p) /\ proc[p].pc = "done"
        /\ Extracting(q) /\ proc[q].pullNumber = proc[p].pullNumber
        /\ fs[proc[p].record.diff_file].writer = q
        /\ fs[proc[p].record.diff_file].content # proc[p].diff.content

====
